---- MODULE Spec2Model ----
(***************************************************************************)
(* Cursor (keyset) pagination of mongoengine-cursor-pagination:            *)
(* src/cursor_pagination.py.                                               *)
(*                                                                         *)
(* Python values are modelled as follows.                                  *)
(*   str            a sequence of character codes (ASCII), "" is << >>     *)
(*   bytes          a sequence of byte values 0..255                       *)
(*   Optional[x]    None is << >>, a value v is <<v>>                      *)
(*   ordering item  '-age' is <<"-", "age">>, 'age' is <<"age">>: the dash *)
(*                  is a character of its own, the field name one token    *)
(*   Document       a record  [age, score, name], each field an Optional   *)
(***************************************************************************)
EXTENDS Integers, Sequences, FiniteSets, TLC

\* ------------------------------------------------------------------ bounds

\* IntField values of the stored documents are 1..MaxVal.
MaxVal == 2

\* page sizes (first, last) are None or 0..MaxFirst.
MaxFirst == 2

\* Orderings have 1..MaxOrderLen items.
MaxOrderLen == 2

\* Inserts and deletes interleaved with one traversal.
MaxMutations == 2

\* ----------------------------------------------------------- python values

None == << >>

Some(v) == <<v>>

IsNone(x) == Len(x) = 0

\* str(n) of a non-negative int: its decimal digits as character codes.
RECURSIVE StrOfInt(_)
StrOfInt(n) ==
    IF n < 10 THEN <<48 + n>> ELSE StrOfInt(n \div 10) \o <<48 + (n % 10)>>

IsDigits(s) == Len(s) > 0 /\ \A i \in 1..Len(s) : s[i] \in 48..57

\* int(s) of a string of decimal digits.
RECURSIVE IntOfStr(_)
IntOfStr(s) ==
    IF Len(s) = 0 THEN 0
    ELSE 10 * IntOfStr(SubSeq(s, 1, Len(s) - 1)) + (s[Len(s)] - 48)

\* s1 < s2 for two str (code point order).
RECURSIVE StrLess(_, _)
StrLess(s1, s2) ==
    IF Len(s2) = 0 THEN FALSE
    ELSE IF Len(s1) = 0 THEN TRUE
    ELSE IF s1[1] # s2[1] THEN s1[1] < s2[1]
    ELSE StrLess(Tail(s1), Tail(s2))

\* sep.join(parts)
RECURSIVE Join(_, _)
Join(sep, parts) ==
    IF Len(parts) = 0 THEN << >>
    ELSE IF Len(parts) = 1 THEN parts[1]
    ELSE parts[1] \o sep \o Join(sep, Tail(parts))

\* s.split(sep) for a one-character separator: never an empty list.
RECURSIVE SplitAcc(_, _, _)
SplitAcc(s, sep, cur) ==
    IF Len(s) = 0 THEN <<cur>>
    ELSE IF s[1] = sep[1] THEN <<cur>> \o SplitAcc(Tail(s), sep, << >>)
    ELSE SplitAcc(Tail(s), sep, Append(cur, s[1]))

Split(s, sep) == SplitAcc(s, sep, << >>)

\* ------------------------------------------------------------------ base64

\* The padding character '='.
B64Pad == <<61>>

\* The base64 alphabet: the character of a 6-bit value.
B64Char(v) ==
    IF v < 26 THEN 65 + v
    ELSE IF v < 52 THEN 97 + (v - 26)
    ELSE IF v < 62 THEN 48 + (v - 52)
    ELSE IF v = 62 THEN 43 ELSE 47

\* The 6-bit value of a character, 64 for a character outside the alphabet.
B64Value(c) ==
    IF c \in 65..90 THEN c - 65
    ELSE IF c \in 97..122 THEN c - 97 + 26
    ELSE IF c \in 48..57 THEN c - 48 + 52
    ELSE IF c = 43 THEN 62
    ELSE IF c = 47 THEN 63 ELSE 64

\* base64.b64encode(bs): three bytes to four characters, '=' padded.
RECURSIVE b64encode(_)
b64encode(bs) ==
    IF Len(bs) = 0 THEN << >>
    ELSE LET n  == Len(bs)
             b1 == bs[1]
             b2 == IF n >= 2 THEN bs[2] ELSE 0
             b3 == IF n >= 3 THEN bs[3] ELSE 0
             c1 == <<B64Char(b1 \div 4)>>
             c2 == <<B64Char((b1 % 4) * 16 + (b2 \div 16))>>
             c3 == IF n >= 2 THEN <<B64Char((b2 % 16) * 4 + (b3 \div 64))>>
                   ELSE B64Pad
             c4 == IF n >= 3 THEN <<B64Char(b3 % 64)>> ELSE B64Pad
         IN  c1 \o c2 \o c3 \o c4
                \o (IF n > 3 THEN b64encode(SubSeq(bs, 4, n)) ELSE << >>)

\* base64.b64decode(s) with validate=False (binascii.a2b_base64, not strict):
\* characters outside the alphabet are skipped, a pad that completes a quad
\* of at least two data characters ends the input, and data left in an
\* incomplete quad is binascii.Error (a ValueError).
\* st is [quad_pos, leftchar, pads, out].
RECURSIVE B64Scan(_, _)
B64Scan(s, st) ==
    IF Len(s) = 0
    THEN IF st.quad_pos # 0 THEN [ok |-> FALSE, val |-> << >>]
         ELSE [ok |-> TRUE, val |-> st.out]
    ELSE LET c == s[1]
             v == B64Value(c)
         IN  IF <<c>> = B64Pad
             THEN IF st.quad_pos >= 2 /\ st.quad_pos + st.pads + 1 >= 4
                  THEN [ok |-> TRUE, val |-> st.out]
                  ELSE B64Scan(Tail(s),
                               IF st.quad_pos >= 2
                               THEN [st EXCEPT !.pads = @ + 1] ELSE st)
             ELSE IF v >= 64 THEN B64Scan(Tail(s), st)
             ELSE B64Scan(Tail(s),
                    CASE st.quad_pos = 0 ->
                           [quad_pos |-> 1, leftchar |-> v, pads |-> 0,
                            out |-> st.out]
                      [] st.quad_pos = 1 ->
                           [quad_pos |-> 2, leftchar |-> v % 16, pads |-> 0,
                            out |-> Append(st.out,
                                           st.leftchar * 4 + (v \div 16))]
                      [] st.quad_pos = 2 ->
                           [quad_pos |-> 3, leftchar |-> v % 4, pads |-> 0,
                            out |-> Append(st.out,
                                           st.leftchar * 16 + (v \div 4))]
                      [] OTHER ->
                           [quad_pos |-> 0, leftchar |-> 0, pads |-> 0,
                            out |-> Append(st.out, st.leftchar * 64 + v)])

b64decode(s) ==
    B64Scan(s, [quad_pos |-> 0, leftchar |-> 0, pads |-> 0, out |-> << >>])

\* str.encode('ascii'): UnicodeEncodeError (a ValueError) on a character
\* above 127.
EncodeAscii(s) ==
    IF \E i \in 1..Len(s) : s[i] > 127 THEN [ok |-> FALSE, val |-> << >>]
    ELSE [ok |-> TRUE, val |-> s]

\* bytes.decode('utf8'): the tokens of the model decode to ASCII bytes or to
\* bytes that no UTF-8 sequence holds (0xF8..0xFF), which are
\* UnicodeDecodeError (a ValueError).
DecodeUtf8(bs) ==
    IF \E i \in 1..Len(bs) : bs[i] > 127 THEN [ok |-> FALSE, val |-> << >>]
    ELSE [ok |-> TRUE, val |-> bs]

\* str.encode('utf8') of a str of ASCII characters.
EncodeUtf8(s) == s

\* ---------------------------------------------------------------- documents

\* The document class of the queryset: two nullable IntFields and a
\* StringField that is not nullable (Author.age is IntField(null=True),
\* Author.name a StringField; score is a second field declared like age).
FieldNames == {"age", "score", "name"}

\* Field.null of each field.
FieldNull == [age |-> TRUE, score |-> TRUE, name |-> FALSE]

\* The python type the field casts query values to.
FieldType == [age |-> "int", score |-> "int", name |-> "str"]

\* str(attr) of a field's value.
StrOf(f, v) == IF FieldType[f] = "int" THEN StrOfInt(v) ELSE v

\* Field.prepare_query_value: IntField casts with int(value), which raises
\* on a str that is no number; StringField keeps the str.
CanCast(f, s) == FieldType[f] = "str" \/ IsDigits(s)

Cast(f, s) == IF FieldType[f] = "int" THEN IntOfStr(s) ELSE s

\* a < b for two values of the field's type.
ValLess(f, a, b) == IF FieldType[f] = "int" THEN a < b ELSE StrLess(a, b)

\* ----------------------------------------------------------------- ordering

startswith_dash(x) == Len(x) > 0 /\ x[1] = "-"

\* x.lstrip('-')
RECURSIVE lstrip_dash(_)
lstrip_dash(x) == IF startswith_dash(x) THEN lstrip_dash(Tail(x)) ELSE x

\* The field an ordering item names.
FieldOf(x) == lstrip_dash(x)[1]

\* invert that leaves the item as it is.
invert_nothing(x) == x

invert(x) == IF startswith_dash(x) THEN Tail(x) ELSE <<"-">> \o x

reverse_ordering(ordering_tuple) ==
    [i \in 1..Len(ordering_tuple) |-> invert(ordering_tuple[i])]

\* -------------------------------------------------------------- cursor codec

\* CursorPaginator.delimiter = '|'
delimiter == <<124>>

\* CursorPaginator.none_string = '::None'
none_string == <<58, 58, 78, 111, 110, 101>>

InvalidCursor == [ok |-> FALSE, err |-> "InvalidCursor", val |-> << >>]

Ok(v) == [ok |-> TRUE, err |-> "", val |-> v]

\* decode_part without the test for none_string: the marker stays a str.
decode_part_keeps_marker(part) == Some(part)

\* One element of the decoded list: none_string stands for None.
decode_part(part) == IF part # none_string THEN Some(part) ELSE None

\* decode_cursor: a list of Optional[str], or InvalidCursor when one of the
\* three conversions raises (TypeError, ValueError).
decode_cursor(cursor) ==
    LET a == EncodeAscii(cursor)
        b == b64decode(a.val)
        u == DecodeUtf8(b.val)
        parts == Split(u.val, delimiter)
    IN  IF ~a.ok \/ ~b.ok \/ ~u.ok THEN InvalidCursor
        ELSE Ok([i \in 1..Len(parts) |-> decode_part(parts[i])])

encode_cursor(position) == b64encode(EncodeUtf8(Join(delimiter, position)))

\* position_from_instance: one str per ordering item, none_string for None.
position_from_instance(ord, instance) ==
    [i \in 1..Len(ord) |->
        LET attr == instance[FieldOf(ord[i])]
        IN  IF IsNone(attr) THEN none_string
            ELSE StrOf(FieldOf(ord[i]), attr[1])]

cursor(ord, instance) == encode_cursor(position_from_instance(ord, instance))

\* ------------------------------------------------------------------ queries

\* A keyword of a Q object: 'age__gt' is [field |-> "age", op |-> "gt"], the
\* bare 'age' has op "".  A dict is a set of [key, value] entries with one
\* entry per key.
Key(f, op) == [field |-> f, op |-> op]

Entry(f, op, value) == [key |-> Key(f, op), value |-> value]

\* d.update(e)
DictUpdate(d, e) ==
    {x \in d : \A y \in e : y.key # x.key} \cup e

\* Q(**query)
Q(query) == [op |-> "leaf", query |-> query, children |-> << >>]

QEmpty(q) == q.op = "leaf" /\ q.query = {}

\* QNode._combine: an empty operand is dropped.
QCombine(a, b, op) ==
    IF QEmpty(b) THEN a
    ELSE IF QEmpty(a) THEN b
    ELSE [op |-> op, query |-> {}, children |-> <<a, b>>]

QOr(a, b) == QCombine(a, b, "or")

QAnd(a, b) == QCombine(a, b, "and")

\* One condition on a document, as MongoDB evaluates it: $gt and $lt match
\* values of the operand's type only (never null), {f: null} matches null,
\* {f: {$ne: null}} matches what is not null.
CondHolds(e, doc) ==
    LET f == e.key.field
        a == doc[f]
    IN  IF IsNone(e.value)
        THEN IF e.key.op = "ne" THEN ~IsNone(a)
             ELSE IF e.key.op \in {"", "exact"} THEN IsNone(a)
             ELSE FALSE
        ELSE LET v == Cast(f, e.value[1])
             IN  CASE e.key.op = "gt" -> ~IsNone(a) /\ ValLess(f, v, a[1])
                   [] e.key.op = "lt" -> ~IsNone(a) /\ ValLess(f, a[1], v)
                   [] e.key.op = "ne" -> IsNone(a) \/ a[1] # v
                   [] OTHER -> ~IsNone(a) /\ a[1] = v

RECURSIVE Matches(_, _)
Matches(q, doc) ==
    IF q.op = "leaf" THEN \A e \in q.query : CondHolds(e, doc)
    ELSE IF q.op = "or"
    THEN Matches(q.children[1], doc) \/ Matches(q.children[2], doc)
    ELSE Matches(q.children[1], doc) /\ Matches(q.children[2], doc)

\* Whether mongoengine can cast every value of the query to its field's type.
RECURSIVE QueryValid(_)
QueryValid(q) ==
    IF q.op = "leaf"
    THEN \A e \in q.query :
            IsNone(e.value) \/ CanCast(e.key.field, e.value[1])
    ELSE QueryValid(q.children[1]) /\ QueryValid(q.children[2])

\* ------------------------------------------------------------- apply_cursor

\* The lookup of a concrete cursor value: '__lt' when the pagination
\* direction differs from the field's direction, else '__gt'.
comparison_key(reverse, is_reversed) ==
    IF reverse # is_reversed THEN "lt" ELSE "gt"

\* rejects_null without the check of Field.null.
rejects_null_never(field_is_nullable) == FALSE

\* A None cursor value is refused on a field that is not nullable.
rejects_null(field_is_nullable) == ~field_is_nullable

\* Whether a None cursor value adds the branch of the non-null records.
null_branch(reverse, is_reversed) == reverse = is_reversed

\* null_candidates as in a store where null sorts last in an ascending
\* field: the branch never takes the null records.
null_candidates_never(field_is_nullable, reverse, is_reversed) == FALSE

\* Whether the branch of a concrete cursor value also takes the null records.
null_candidates(field_is_nullable, reverse, is_reversed) ==
    field_is_nullable /\ reverse # is_reversed

\* The loop over zip(self.ordering, position): it ends with the shorter of
\* the two.  acc is [filtering, q_equality].
RECURSIVE ApplyLoop(_, _, _, _)
ApplyLoop(ord, position, reverse, acc) ==
    IF Len(ord) = 0 \/ Len(position) = 0 THEN Ok(acc.filtering)
    ELSE LET value == position[1]
             is_reversed == startswith_dash(ord[1])
             o == FieldOf(ord[1])
             field_is_nullable == FieldNull[o]
         IN  IF IsNone(value)
             THEN IF rejects_null(field_is_nullable) THEN InvalidCursor
                  ELSE ApplyLoop(Tail(ord), Tail(position), reverse,
                         [filtering |->
                            IF null_branch(reverse, is_reversed)
                            THEN QOr(acc.filtering,
                                     Q(DictUpdate({Entry(o, "ne", None)},
                                                  acc.q_equality)))
                            ELSE acc.filtering,
                          q_equality |->
                            DictUpdate(acc.q_equality, {Entry(o, "", None)})])
             ELSE LET q0 == Q({Entry(o, comparison_key(reverse, is_reversed),
                                     value)})
                      q  == IF null_candidates(field_is_nullable, reverse,
                                               is_reversed)
                            THEN QOr(q0, Q({Entry(o, "", None)}))
                            ELSE q0
                  IN  ApplyLoop(Tail(ord), Tail(position), reverse,
                         [filtering |->
                            QOr(acc.filtering, QAnd(q, Q(acc.q_equality))),
                          q_equality |->
                            DictUpdate(acc.q_equality,
                                       {Entry(o, "exact", value)})])

\* apply_cursor: the Q object handed to queryset.filter, or InvalidCursor.
\* from_last is a parameter the method never reads.
apply_cursor(ord, token, reverse) ==
    LET position == decode_cursor(token)
    IN  IF ~position.ok THEN InvalidCursor
        ELSE ApplyLoop(ord, position.val, reverse,
                       [filtering |-> Q({}), q_equality |-> {}])

\* -------------------------------------------------------------------- store

\* d1 sorts strictly before d2 under order_by(*ord): MongoDB compares field
\* by field and null is the smallest value of a field, so it is first in an
\* ascending field and last in a descending one.
RECURSIVE KeyLess(_, _, _)
KeyLess(ord, d1, d2) ==
    IF Len(ord) = 0 THEN FALSE
    ELSE LET f == FieldOf(ord[1])
             a == d1[f]
             b == d2[f]
             lt(x, y) == \/ IsNone(x) /\ ~IsNone(y)
                         \/ ~IsNone(x) /\ ~IsNone(y) /\ ValLess(f, x[1], y[1])
         IN  IF a = b THEN KeyLess(Tail(ord), d1, d2)
             ELSE IF startswith_dash(ord[1]) THEN lt(b, a) ELSE lt(a, b)

\* The documents of S are pairwise ordered by ord: ord is a total order of S.
TotalOn(S, ord) ==
    \A d \in S, e \in S : d # e => KeyLess(ord, d, e) \/ KeyLess(ord, e, d)

\* The orders in which the store may return the documents S sorted by ord:
\* documents with equal sort keys come in any order.
RECURSIVE Listings(_, _)
Listings(S, ord) ==
    IF S = {} THEN {<< >>}
    ELSE UNION {{<<m>> \o rest : rest \in Listings(S \ {m}, ord)} :
                  m \in {d \in S : \A e \in S : ~KeyLess(ord, e, d)}}

\* seq[:stop]
Slice(seq, stop) ==
    IF IsNone(stop) THEN seq
    ELSE SubSeq(seq, 1, IF stop[1] < Len(seq) THEN stop[1] ELSE Len(seq))

\* list.reverse()
Reverse(seq) == [i \in 1..Len(seq) |-> seq[Len(seq) + 1 - i]]

\* --------------------------------------------------------------------- page

\* refuses_arguments by truthiness ('if first and last'): 0 counts as unset.
refuses_arguments_truthy(first, last) ==
    /\ ~IsNone(last) /\ last[1] # 0
    /\ ~IsNone(first) /\ first[1] # 0

\* refuses_arguments that wants exactly one of first and last.
refuses_arguments_exactly_one(first, last) == IsNone(first) = IsNone(last)

\* overfetch that asks for the page alone.
overfetch_none(n) == n

\* The slice bound of a page of n items: one more, to see whether more exist.
overfetch(n) == n + 1

\* 'from_last and first is not None': the arguments page refuses.
refuses_arguments(first, last) == ~IsNone(last) /\ ~IsNone(first)

\* bool(x) of an Optional[str]: None and '' are false.
Truthy(x) == ~IsNone(x) /\ Len(x[1]) > 0

\* _apply_paginator_arguments: the queryset to execute
\* [filter, order, stop], or the exception raised, with the number of
\* cursors decoded on the way.
apply_paginator_arguments(ord, first, last, after, before) ==
    IF refuses_arguments(first, last)
    THEN [err |-> "ValueError", decodes |-> 0]
    ELSE LET a == IF ~IsNone(after) THEN apply_cursor(ord, after[1], FALSE)
                  ELSE Ok(Q({}))
             b == IF ~IsNone(before) THEN apply_cursor(ord, before[1], TRUE)
                  ELSE Ok(Q({}))
             na == IF ~IsNone(after) THEN 1 ELSE 0
             nb == IF ~IsNone(before) THEN 1 ELSE 0
         IN  IF ~a.ok THEN [err |-> "InvalidCursor", decodes |-> na]
             ELSE IF ~b.ok THEN [err |-> "InvalidCursor", decodes |-> na + nb]
             ELSE [err |-> "", decodes |-> na + nb,
                   filter |-> QAnd(a.val, b.val),
                   order |-> IF ~IsNone(last) THEN reverse_ordering(ord)
                             ELSE ord,
                   stop |-> IF ~IsNone(first) THEN Some(overfetch(first[1]))
                            ELSE IF ~IsNone(last) THEN Some(overfetch(last[1]))
                            ELSE None]

\* has_previous of a forward page, has_next of a backward page.
cursor_flag(token) == Truthy(token)

\* _get_cursor_page: the CursorPage, with the flags' defaults (False) when
\* neither first nor last is set.
get_cursor_page(items, has_additional, first, last, after, before) ==
    IF ~IsNone(first)
    THEN [items |-> items, has_next |-> has_additional,
          has_previous |-> cursor_flag(after)]
    ELSE IF ~IsNone(last)
    THEN [items |-> items, has_next |-> cursor_flag(before),
          has_previous |-> has_additional]
    ELSE [items |-> items, has_next |-> FALSE, has_previous |-> FALSE]

\* The rest of page, from list(qs) on; qs is what the store returned.
assemble_page(qs, first, last, after, before) ==
    LET page_size == IF ~IsNone(first) THEN first ELSE last
        cut == Slice(qs, page_size)
        items == IF ~IsNone(last) THEN Reverse(cut) ELSE cut
        has_additional == Len(qs) > Len(items)
    IN  get_cursor_page(items, has_additional, first, last, after, before)

\* An exception that leaves page: no CursorPage is made.
Raised(kind, decodes) ==
    [kind |-> kind, items |-> << >>, has_next |-> FALSE,
     has_previous |-> FALSE, decodes |-> decodes, queried |-> FALSE,
     fetched |-> 0]

\* The outcomes of page(first, last, after, before) over the documents docs:
\* one per order in which the store may list documents with equal keys.
PageOutcomes(ord, docs, first, last, after, before) ==
    LET args == apply_paginator_arguments(ord, first, last, after, before)
    IN  IF args.err # "" THEN {Raised(args.err, args.decodes)}
        ELSE IF ~QueryValid(args.filter)
        THEN {Raised("QueryError", args.decodes)}
        ELSE {LET qs == Slice(listing, args.stop)
                  page == assemble_page(qs, first, last, after, before)
              IN  [kind |-> "Page", items |-> page.items,
                   has_next |-> page.has_next,
                   has_previous |-> page.has_previous,
                   decodes |-> args.decodes, queried |-> TRUE,
                   fetched |-> Len(qs)] :
              listing \in Listings({d \in docs : Matches(args.filter, d)},
                                   args.order)}

\* -------------------------------------------------------------------- state

VARIABLES
    ordering,   \* CursorPaginator.ordering
    store,      \* the documents of the queryset's collection
    call,       \* the arguments of the last page call
    result,     \* what the last page call returned or raised
    trav,       \* a caller's forward traversal, page after page
    codec,      \* a cursor made from an instance and decoded again
    filt        \* the last filter apply_cursor built on its own

vars == <<ordering, store, call, result, trav, codec, filt>>

\* ------------------------------------------------------------------- inputs

\* StringField values: '', 'a', 'b'.
Names == {<< >>, <<97>>, <<98>>}

OptInts == {None} \cup {Some(n) : n \in 1..MaxVal}

Doc(age, score, name) == [age |-> age, score |-> score, name |-> Some(name)]

\* Every document over the values of the model.
Universe == {Doc(a, s, n) : a \in OptInts, s \in OptInts, n \in Names}

\* The documents the stores hold: score is left unset (None).
StoreDocs == {d \in Universe : IsNone(d.score)}

\* The collections over some of the names and ages: name is unique in a
\* collection.
StoresOver(names, ages) ==
    UNION {{{Doc(age[n], None, n) : n \in N} : age \in [N -> ages]} :
             N \in SUBSET names}

Stores == StoresOver(Names, OptInts)

Items(fields) == {<<f>> : f \in fields} \cup {<<"-", f>> : f \in fields}

\* Orderings over distinct fields, 1..MaxOrderLen items long.
OrderingsOver(fields) ==
    {o \in UNION {[1..n -> Items(fields)] : n \in 1..MaxOrderLen} :
        \A i \in 1..Len(o), j \in 1..Len(o) :
            i # j => FieldOf(o[i]) # FieldOf(o[j])}

Orderings == OrderingsOver(FieldNames)

\* The orderings paged over: the fields the stores populate.
PageOrderings == OrderingsOver({"age", "name"})

\* Tokens no cursor of the paginator's own documents need equal:
\* '!', 'MQ', '/w==', a character above 127, and the base64 of
\* '::None', '1|a', '::None|a', 'a|::None'.
ForeignTokens ==
    {<<33>>, <<77, 81>>, <<47, 119, 61, 61>>, <<233>>,
     b64encode(none_string),
     b64encode(<<49, 124, 97>>),
     b64encode(none_string \o <<124, 97>>),
     b64encode(<<97, 124>> \o none_string)}

Sizes == {None} \cup {Some(n) : n \in 0..MaxFirst}

StoreCursors == {Some(cursor(ordering, d)) : d \in store}

Tokens == StoreCursors \cup {Some(t) : t \in ForeignTokens}

\* after and before: one of them, none, or the cursors of two documents.
TokenPairs ==
    {<<None, None>>}
        \cup {<<t, None>> : t \in Tokens}
        \cup {<<None, t>> : t \in Tokens}
        \cup (StoreCursors \X StoreCursors)

NoCall == [first |-> None, last |-> None, after |-> None, before |-> None]

NoResult == Raised("none", 0)

NoTrav == [pc |-> "idle", k |-> 0, seen |-> << >>, stable |-> {},
           has_next |-> FALSE, muts |-> 0, lost |-> FALSE]

NoCodec == [pc |-> "idle", instance |-> Doc(None, None, << >>),
            position |-> << >>, token |-> << >>, decoded |-> Ok(<< >>)]

NoFilt == [pc |-> "idle", position |-> Doc(None, None, << >>),
           reverse |-> FALSE, filtering |-> Ok(Q({}))]

\* ------------------------------------------------------------ page requests

Init ==
    /\ ordering \in PageOrderings
    /\ store \in Stores
    /\ call = NoCall
    /\ result = NoResult
    /\ trav = NoTrav
    /\ codec = NoCodec
    /\ filt = NoFilt

\* paginator.page(first, last, after, before)
Page(first, last, after, before) ==
    /\ call' = [first |-> first, last |-> last, after |-> after,
                before |-> before]
    /\ result' \in PageOutcomes(ordering, store, first, last, after, before)
    /\ UNCHANGED <<ordering, store, trav, codec, filt>>

\* A caller that holds no outcome calls page.
PageCall ==
    /\ call = NoCall
    /\ result = NoResult
    /\ \E first \in Sizes, last \in Sizes, tokens \in TokenPairs :
          Page(first, last, tokens[1], tokens[2])

\* The caller is done with the outcome of its call.
Return ==
    /\ result # NoResult
    /\ call' = NoCall
    /\ result' = NoResult
    /\ UNCHANGED <<ordering, store, trav, codec, filt>>

Next ==
    \/ PageCall
    \/ Return

Spec == Init /\ [][Next]_vars

\* ------------------------------------------------------------------ windows

\* Names '1' .. '5' of the records paged through window by window.
WindowNames == {<<49>>, <<50>>, <<51>>, <<52>>, <<53>>}

\* Their ages: None, 1, 2.
WindowAges == {None, Some(1), Some(2)}

WindowStores == StoresOver(WindowNames, WindowAges)

\* The paginator is made with an ordering that is a total order of the
\* collection.
InitWindow ==
    /\ ordering \in PageOrderings
    /\ store \in {S \in WindowStores : TotalOn(S, ordering)}
    /\ call = NoCall
    /\ result = NoResult
    /\ trav = NoTrav
    /\ codec = NoCodec
    /\ filt = NoFilt

\* page(first=k) and page(first=k, after=cursor(record)) of a stored record.
PageForward ==
    /\ call = NoCall
    /\ result = NoResult
    /\ \E k \in 1..MaxFirst, after \in {None} \cup StoreCursors :
          Page(Some(k), None, after, None)

\* page(last=k) and page(last=k, before=cursor(record)) of a stored record.
PageBackward ==
    /\ call = NoCall
    /\ result = NoResult
    /\ \E k \in 1..MaxFirst, before \in {None} \cup StoreCursors :
          Page(None, Some(k), None, before)

NextWindow ==
    \/ PageForward
    \/ PageBackward
    \/ Return

SpecWindow == InitWindow /\ [][NextWindow]_vars

\* --------------------------------------------------------------- traversal

\* The orderings of a traversal: name, the unique field, comes last.
TotalOrderings ==
    {o \in PageOrderings : FieldOf(o[Len(o)]) = "name"}

InitTraversal ==
    /\ ordering \in TotalOrderings
    /\ store \in Stores
    /\ call = NoCall
    /\ result = NoResult
    /\ trav = NoTrav
    /\ codec = NoCodec
    /\ filt = NoFilt

\* What a traversal keeps of a page: the items join those seen so far.
Turn(outcome, k, seen, stable, muts, lost) ==
    [pc |-> IF outcome.kind # "Page" THEN "failed"
            ELSE IF outcome.has_next THEN "more" ELSE "done",
     k |-> k, seen |-> seen \o outcome.items, stable |-> stable,
     has_next |-> outcome.has_next, muts |-> muts, lost |-> lost]

\* The traversal starts: page(first=k).
FirstPage(k) ==
    /\ trav.pc = "idle"
    /\ \E outcome \in PageOutcomes(ordering, store, Some(k), None, None, None) :
          trav' = Turn(outcome, k, << >>, store, 0, FALSE)
    /\ UNCHANGED <<ordering, store, call, result, codec, filt>>

\* The cursor a traversal continues from: the last item it was given.
resume_cursor(seen) == cursor(ordering, seen[Len(seen)])

\* page(first=k, after=cursor(last item of the previous page)).
NextPage ==
    /\ trav.pc = "more"
    /\ Len(trav.seen) > 0
    /\ \E outcome \in PageOutcomes(ordering, store, Some(trav.k), None,
                                   Some(resume_cursor(trav.seen)), None) :
          trav' = Turn(outcome, trav.k, trav.seen, trav.stable, trav.muts,
                        trav.lost)
    /\ UNCHANGED <<ordering, store, call, result, codec, filt>>

\* Another client inserts a document between two page calls.
Insert(d) ==
    /\ trav.pc = "more"
    /\ trav.muts < MaxMutations
    /\ \A e \in store : e.name # d.name
    /\ store' = store \cup {d}
    /\ trav' = [trav EXCEPT !.muts = @ + 1]
    /\ UNCHANGED <<ordering, call, result, codec, filt>>

\* Another client deletes a document between two page calls; lost records
\* that it was the document the next cursor is made from.
Delete(d) ==
    /\ trav.pc = "more"
    /\ trav.muts < MaxMutations
    /\ d \in store
    /\ store' = store \ {d}
    /\ trav' = [trav EXCEPT !.muts = @ + 1, !.stable = @ \ {d},
                   !.lost = @ \/ d = trav.seen[Len(trav.seen)]]
    /\ UNCHANGED <<ordering, call, result, codec, filt>>

NextTraversal ==
    \/ \E k \in 1..MaxFirst : FirstPage(k)
    \/ NextPage
    \/ \E d \in StoreDocs : Insert(d)
    \/ \E d \in StoreDocs : Delete(d)

SpecTraversal == InitTraversal /\ [][NextTraversal]_vars

\* ------------------------------------------------------------- cursor codec

\* Instances whose values the codec stringifies: ints of one to three
\* digits, and names that hold the delimiter or equal none_string
\* ('', 'a', 'b', '|', 'a|b', '::None').
CodecDocs ==
    {Doc(a, s, n) :
        a \in {None, Some(1), Some(12)},
        s \in {None, Some(305)},
        n \in Names \cup {delimiter, <<97, 124, 98>>, none_string}}

InitCodec ==
    /\ ordering \in Orderings
    /\ store = {}
    /\ call = NoCall
    /\ result = NoResult
    /\ trav = NoTrav
    /\ codec = NoCodec
    /\ filt = NoFilt

PositionFromInstance(instance) ==
    /\ codec.pc = "idle"
    /\ codec' = [codec EXCEPT !.pc = "position", !.instance = instance,
                    !.position = position_from_instance(ordering, instance)]
    /\ UNCHANGED <<ordering, store, call, result, trav, filt>>

EncodeCursor ==
    /\ codec.pc = "position"
    /\ codec' = [codec EXCEPT !.pc = "encoded",
                    !.token = encode_cursor(codec.position)]
    /\ UNCHANGED <<ordering, store, call, result, trav, filt>>

DecodeCursor ==
    /\ codec.pc = "encoded"
    /\ codec' = [codec EXCEPT !.pc = "decoded",
                    !.decoded = decode_cursor(codec.token)]
    /\ UNCHANGED <<ordering, store, call, result, trav, filt>>

CodecReturn ==
    /\ codec.pc = "decoded"
    /\ codec' = NoCodec
    /\ UNCHANGED <<ordering, store, call, result, trav, filt>>

NextCodec ==
    \/ \E instance \in CodecDocs : PositionFromInstance(instance)
    \/ EncodeCursor
    \/ DecodeCursor
    \/ CodecReturn

SpecCodec == InitCodec /\ [][NextCodec]_vars

\* ------------------------------------------------------ the boundary filter

InitFilter ==
    /\ ordering \in Orderings
    /\ store = {}
    /\ call = NoCall
    /\ result = NoResult
    /\ trav = NoTrav
    /\ codec = NoCodec
    /\ filt = NoFilt

\* apply_cursor(cursor(position), queryset, from_last, reverse) on its own,
\* for the cursor of a document that need not be stored.
ApplyCursor(position, reverse) ==
    /\ filt.pc = "idle"
    /\ filt' = [pc |-> "applied", position |-> position, reverse |-> reverse,
                filtering |-> apply_cursor(ordering,
                                           cursor(ordering, position),
                                           reverse)]
    /\ UNCHANGED <<ordering, store, call, result, trav, codec>>

FilterReturn ==
    /\ filt.pc = "applied"
    /\ filt' = NoFilt
    /\ UNCHANGED <<ordering, store, call, result, trav, codec>>

NextFilter ==
    \/ \E position \in Universe, reverse \in BOOLEAN :
          ApplyCursor(position, reverse)
    \/ FilterReturn

SpecFilter == InitFilter /\ [][NextFilter]_vars

\* ------------------------------------------------------------------- claims

Min(a, b) == IF a < b THEN a ELSE b

Range(seq) == {seq[i] : i \in 1..Len(seq)}

Called == result # NoResult

BothSet == ~IsNone(call.first) /\ ~IsNone(call.last)

\* The last field of the ordering is name: unique and not nullable.
UniqueLast == FieldOf(ordering[Len(ordering)]) = "name"

\* r1 < r2 < ... < rn, the stored records in natural order: the one listing
\* of the store when the ordering is a total order of it.
NaturalOrders == Listings(store, ordering)

\* The sort-key tuple of a record: per ordering item None or str(value).
KeyTuple(ord, instance) ==
    [i \in 1..Len(ord) |->
        LET f == FieldOf(ord[i])
        IN  IF IsNone(instance[f]) THEN None
            ELSE Some(StrOf(f, instance[f][1]))]

\* C1: the filter apply_cursor builds for the cursor of a position accepts
\* a record iff the record is strictly after the position in the ordering
\* (reverse=False), strictly before it (reverse=True); when no branch is
\* emitted it accepts no record.
C1_FilterIsStrictOrder ==
    filt.pc = "applied" =>
        /\ filt.filtering.ok
        /\ \A d \in Universe :
              Matches(filt.filtering.val, d)
                  <=> IF filt.reverse THEN KeyLess(ordering, d, filt.position)
                      ELSE KeyLess(ordering, filt.position, d)

\* The forward page of k after the i-th of the records r (i = 0: no cursor).
ForwardWindow(r, i, k) ==
    /\ result.kind = "Page"
    /\ result.items = SubSeq(r, i + 1, Min(i + k, Len(r)))
    /\ Len(result.items) <= k
    /\ result.has_next = (i + k < Len(r))

\* C2: over an ordering whose last field is unique and not nullable,
\* page(first=k) is [r1 .. r_min(k,n)] and page(first=k, after=cursor(r_i))
\* is [r_(i+1) .. r_min(i+k,n)], at most k items, has_next iff i+k < n.
C2_ForwardWindow ==
    (/\ Called
     /\ ~IsNone(call.first) /\ IsNone(call.last) /\ IsNone(call.before)
     /\ UniqueLast) =>
        \A r \in NaturalOrders :
            call.first[1] >= 1 =>
                /\ IsNone(call.after) => ForwardWindow(r, 0, call.first[1])
                /\ \A i \in 1..Len(r) :
                      call.after = Some(cursor(ordering, r[i]))
                          => ForwardWindow(r, i, call.first[1])

\* C2's case: over the names '1' .. '5' in ascending order and pages of
\* two, the page after the 2nd record is the 3rd and 4th with more to come.
C2_Witness ==
    /\ Called
    /\ ordering = <<<<"name">>>>
    /\ {d.name[1] : d \in store} = WindowNames
    /\ \E d \in store : IsNone(d.age)
    /\ call.first = Some(2) /\ IsNone(call.last) /\ IsNone(call.before)
    /\ result.has_next
    /\ \E r \in NaturalOrders :
          /\ call.after = Some(cursor(ordering, r[2]))
          /\ result.items = <<r[3], r[4]>>

\* C3: a forward traversal under inserts and deletes never fails, returns
\* records in strictly increasing sort order (so none twice), and has
\* returned every record stored throughout when it reports has_next false.
C3_StableTraversal ==
    /\ trav.pc # "failed"
    /\ \A i \in 1..Len(trav.seen), j \in 1..Len(trav.seen) :
          i < j => /\ KeyLess(ordering, trav.seen[i], trav.seen[j])
                   /\ trav.seen[i] # trav.seen[j]
    /\ trav.pc = "done" => trav.stable \subseteq Range(trav.seen)

\* C3's case: a traversal of several pages that ended after the record of
\* one of its cursors was deleted and another record inserted.
C3_Witness ==
    /\ trav.pc = "done"
    /\ trav.lost
    /\ trav.muts = MaxMutations
    /\ Len(trav.seen) >= 3
    /\ trav.stable # {}
    /\ \E d \in Range(trav.seen) : d \notin trav.stable /\ d \in store

\* C4: under a total order, page(last=k, before=cursor(r_(i+k+1))) returns
\* [r_(i+1) .. r_(i+k)] in natural order, the items of
\* page(first=k, after=cursor(r_i)).
C4_BackwardEqualsForward ==
    (/\ Called
     /\ ~IsNone(call.last) /\ IsNone(call.first) /\ IsNone(call.after)
     /\ TotalOn(store, ordering)) =>
        \A r \in NaturalOrders, k \in {call.last[1]} :
            \A i \in 1..Len(r) :
               (/\ k >= 1
                /\ i + k + 1 <= Len(r)
                /\ call.before = Some(cursor(ordering, r[i + k + 1]))) =>
                   /\ result.kind = "Page"
                   /\ result.items = SubSeq(r, i + 1, i + k)
                   /\ \A fwd \in PageOutcomes(ordering, store, Some(k), None,
                                    Some(cursor(ordering, r[i])), None) :
                         fwd.kind = "Page" /\ fwd.items = result.items

\* C4's case: the 2nd and 3rd of five records, asked for backward from the
\* 4th, under a descending ordering that starts with the nullable age.
C4_Witness ==
    /\ Called
    /\ Cardinality(store) = 5
    /\ ordering = <<<<"-", "age">>, <<"name">>>>
    /\ \E d \in store : IsNone(d.age)
    /\ call.last = Some(2) /\ IsNone(call.first) /\ IsNone(call.after)
    /\ result.has_previous
    /\ \E r \in NaturalOrders :
          /\ call.before = Some(cursor(ordering, r[4]))
          /\ result.items = <<r[2], r[3]>>

\* No concrete value of the instance's sort fields holds the delimiter or
\* equals none_string.
CleanValues(ord, instance) ==
    \A i \in 1..Len(ord) :
        LET p == KeyTuple(ord, instance)[i]
        IN  ~IsNone(p) =>
               /\ p[1] # none_string
               /\ \A j \in 1..Len(p[1]) : <<p[1][j]>> # delimiter

\* C5 as stated: decode_cursor(cursor(instance)) is the instance's position,
\* for every position.
C5_RoundTripAny ==
    codec.pc = "decoded" =>
        /\ codec.decoded.ok
        /\ codec.decoded.val = KeyTuple(ordering, codec.instance)

\* C5: decode_cursor(cursor(instance)) is the instance's position, slot by
\* slot, when no concrete value holds '|' or equals '::None'.
C5_RoundTripClean ==
    (codec.pc = "decoded" /\ CleanValues(ordering, codec.instance)) =>
        /\ codec.decoded.ok
        /\ codec.decoded.val = KeyTuple(ordering, codec.instance)

\* C5's case: a position of a null and a concrete value, decoded again.
C5_Witness ==
    /\ codec.pc = "decoded"
    /\ CleanValues(ordering, codec.instance)
    /\ Len(ordering) = 2
    /\ codec.decoded.ok
    /\ codec.decoded.val = <<None, Some(<<97>>)>>

\* A str that is base64: alphabet characters in groups of four, the last
\* group padded with at most two '='.
IsBase64(s) ==
    /\ Len(s) % 4 = 0
    /\ \A i \in 1..Len(s) :
          \/ B64Value(s[i]) < 64
          \/ /\ <<s[i]>> = B64Pad
             /\ i >= Len(s) - 1
             /\ i = Len(s) - 1 => <<s[Len(s)]>> = B64Pad

\* A token that is not base64, or decodes to another number of fields than
\* the ordering has.
Malformed(token) ==
    /\ ~IsNone(token)
    /\ \/ ~IsBase64(token[1])
       \/ /\ decode_cursor(token[1]).ok
          /\ Len(decode_cursor(token[1]).val) # Len(ordering)

\* C6: a page call (not refused for first and last) with a malformed after
\* or before token raises InvalidCursor.
C6_MalformedRaises ==
    (Called /\ ~BothSet /\ (Malformed(call.after) \/ Malformed(call.before)))
        => result.kind = "InvalidCursor"

\* C7: with first and last both set, page raises ValueError before a cursor
\* is decoded and before the store is queried.
C7_BothRefusedFirst ==
    (Called /\ BothSet) =>
        /\ result.kind = "ValueError"
        /\ result.decodes = 0
        /\ ~result.queried

\* C7's case: first=0 and last=0 with an after token that cannot be decoded.
C7_Witness ==
    /\ Called
    /\ call.first = Some(0) /\ call.last = Some(0)
    /\ call.after = Some(<<77, 81>>)
    /\ result.kind = "ValueError"

\* C8 as stated: a call with neither first nor last ends in an error.
C8_NeitherIsError ==
    (Called /\ IsNone(call.first) /\ IsNone(call.last))
        => result.kind # "Page"

\* C8: a call with neither first nor last is not refused: unless a cursor
\* is, it returns a Page of every record the cursors accept, untrimmed,
\* with both flags false; without cursors that is the whole store in
\* natural order.
C8_NeitherReturnsAll ==
    (Called /\ IsNone(call.first) /\ IsNone(call.last)) =>
        /\ result.kind # "ValueError"
        /\ result.kind = "Page" =>
              /\ ~result.has_next /\ ~result.has_previous
              /\ result.fetched = Len(result.items)
        /\ (IsNone(call.after) /\ IsNone(call.before)) =>
              /\ result.kind = "Page"
              /\ result.items \in Listings(store, ordering)

\* C8's case: page() over three records returns the three.
C8_Witness ==
    /\ Called
    /\ call = NoCall
    /\ Cardinality(store) = 3
    /\ result.kind = "Page"
    /\ Len(result.items) = 3

\* C9: on a forward page has_previous iff after is not None and has_next
\* iff the extra record was fetched; on a backward page has_next iff before
\* is not None and has_previous iff the extra record was fetched.
C9_Flags ==
    result.kind = "Page" =>
        /\ ~IsNone(call.first) =>
              /\ result.has_previous = ~IsNone(call.after)
              /\ result.has_next = (result.fetched > Len(result.items))
        /\ ~IsNone(call.last) =>
              /\ result.has_next = ~IsNone(call.before)
              /\ result.has_previous = (result.fetched > Len(result.items))

\* The token decodes to a position with None in a slot of a field that is
\* not nullable.
NullOnNonNullable(token) ==
    /\ ~IsNone(token)
    /\ LET position == decode_cursor(token[1])
       IN  /\ position.ok
           /\ \E i \in 1..Min(Len(position.val), Len(ordering)) :
                 /\ IsNone(position.val[i])
                 /\ ~FieldNull[FieldOf(ordering[i])]

\* C10: a cursor with the null marker in the slot of a field that is not
\* nullable, as after or as before, raises InvalidCursor.
C10_NullOnNonNullableRaises ==
    (/\ Called /\ ~BothSet
     /\ NullOnNonNullable(call.after) \/ NullOnNonNullable(call.before))
        => result.kind = "InvalidCursor"

\* C10's case: 'a|::None' as before of a backward page ordered by age, name.
C10_Witness ==
    /\ Called
    /\ Len(ordering) = 2 /\ UniqueLast
    /\ ~IsNone(call.last) /\ IsNone(call.first) /\ IsNone(call.after)
    /\ call.before = Some(b64encode(<<97, 124>> \o none_string))
    /\ NullOnNonNullable(call.before)
    /\ result.kind = "InvalidCursor"

====
